---- MODULE Spec2Model ----
(***************************************************************************)
(* Model of lib/orm.py: the DataBase repository (create/drop/truncate/     *)
(* backup/restore/save over the patient, doctor and appointment tables)    *)
(* and the DatabaseSandbox context manager (template clone of the source   *)
(* database, session termination, drop on exit), together with the part   *)
(* of the PostgreSQL engine the statements they issue depend on, and of    *)
(* lib/orm_docstrings.py: the column lists read off the class docstrings.  *)
(***************************************************************************)
EXTENDS Integers, Sequences, FiniteSets, TLC

VARIABLES dbs, sess, conn, extSess, pc, backup, raised, outcome, log, snap, made, last, rt, hist,
          given, call, cls, built, peer

vars == <<dbs, sess, conn, extSess, pc, backup, raised, outcome, log, snap, made, last, rt, hist,
          given, call, cls, built, peer>>

(***************************************************************************)
(* Bounds of the model.                                                    *)
(***************************************************************************)
\* largest value a SERIAL sequence hands out before inserts are cut off
MaxId == 2
\* most sessions of other programs connected to one database at a time
MaxExt == 1
\* longest list handed to save_objects / replace_all_data
MaxObjs == 2

(***************************************************************************)
(* Connection parameters and entity names.                                 *)
(***************************************************************************)
source_db_params == "science_work_lab"
sandbox_db_params == "science_work_lab_sandbox"
DbNames == {source_db_params, sandbox_db_params}

\* model_class.__name__.lower() for the three model classes
Models == {"patient", "doctor", "appointment"}

\* holders of a connection attribute: the DatabaseSandbox manager and the
\* DataBase object opened on the sandbox parameters
Clients == {"sandbox", "db"}

(***************************************************************************)
(* Column lists of get_columns(); a row is the tuple of its column values  *)
(* in this order, the SERIAL primary key first.                            *)
(***************************************************************************)
Patient_get_columns == <<"patient_id", "name", "age", "gender">>
Doctor_get_columns == <<"doctor_id", "name", "specialty">>
Appointment_get_columns == <<"appointment_id", "patient_id", "doctor_id", "appointment_date">>

get_columns(m) ==
    CASE m = "patient" -> Patient_get_columns
      [] m = "doctor" -> Doctor_get_columns
      [] m = "appointment" -> Appointment_get_columns

\* which columns hold integers (SERIAL / INTEGER), the others hold text
ColumnIsInt(m) ==
    CASE m = "patient" -> <<TRUE, FALSE, TRUE, FALSE>>
      [] m = "doctor" -> <<TRUE, FALSE, FALSE>>
      [] m = "appointment" -> <<TRUE, TRUE, TRUE, FALSE>>

\* faulty variant: the Appointment columns carry no REFERENCES clause
References_none(m) == {}

\* tables an entity's columns REFERENCE ... ON DELETE CASCADE
References(m) == IF m = "appointment" THEN {"patient", "doctor"} ELSE {}

\* position of the referencing column in an appointment row
FkColumn(t) == IF t = "patient" THEN 2 ELSE 3

(***************************************************************************)
(* Engine catalog: a database holds, per entity, a table that may exist,   *)
(* its rows, the next value of its SERIAL sequence and the foreign keys    *)
(* still attached to it.                                                   *)
(***************************************************************************)
NoTable == [exists |-> FALSE, rows |-> {}, seq |-> 1, fks |-> {}]
EmptyTable(m) == [exists |-> TRUE, rows |-> {}, seq |-> 1, fks |-> References(m)]
NoDatabase == [exists |-> FALSE, tables |-> [m \in Models |-> NoTable]]
EmptyDatabase == [exists |-> TRUE, tables |-> [m \in Models |-> NoTable]]

Ids(rows) == {r[1] : r \in rows}
MaxOf(S) == CHOOSE x \in S : \A y \in S : y <= x
MinOf(S) == CHOOSE x \in S : \A y \in S : x <= y

\* CHECK constraints of the column definitions
CheckOk(m, row) ==
    CASE m = "patient" ->
            /\ row[2] # ""
            /\ row[3] >= 0 /\ row[3] <= 120
            /\ row[4] \in {"Male", "Female"}
      [] m = "doctor" -> row[2] # "" /\ row[3] # ""
      [] m = "appointment" -> TRUE

\* REFERENCES constraints still attached to the table
FkOk(d, m, row) ==
    \A t \in d.tables[m].fks : row[FkColumn(t)] \in Ids(d.tables[t].rows)

\* faulty variant: TRUNCATE that empties the named table only
TruncateSet_only(d, m) == {m}

\* tables emptied by TRUNCATE m CASCADE: m and every table referencing it
TruncateSet(d, m) == {m} \cup {t \in Models : d.tables[t].exists /\ m \in d.tables[t].fks}

(***************************************************************************)
(* SQL statements as the engine runs them on one database d.  Every        *)
(* statement yields [ok, db]: autocommit is on, so a failing statement     *)
(* leaves the database as it was (a sequence value it drew stays drawn).   *)
(***************************************************************************)
Done(d) == [ok |-> TRUE, db |-> d]
Failed(d) == [ok |-> FALSE, db |-> d]

Sql(op, table, vals) == [op |-> op, table |-> table, vals |-> vals]

\* faulty variant: CREATE TABLE without IF NOT EXISTS
CreateTableStmt_plain(d, m) ==
    IF d.tables[m].exists \/ \E t \in References(m) : ~d.tables[t].exists THEN Failed(d)
    ELSE Done([d EXCEPT !.tables[m] = EmptyTable(m)])

\* CREATE TABLE IF NOT EXISTS <table> (<columns>)
CreateTableStmt(d, m) ==
    IF d.tables[m].exists THEN Done(d)
    ELSE IF \E t \in References(m) : ~d.tables[t].exists THEN Failed(d)
    ELSE Done([d EXCEPT !.tables[m] = EmptyTable(m)])

\* TRUNCATE TABLE <table> RESTART IDENTITY CASCADE
TruncateStmt(d, m) ==
    IF ~d.tables[m].exists THEN Failed(d)
    ELSE Done([d EXCEPT !.tables = [t \in Models |->
                  IF t \in TruncateSet(d, m)
                  THEN [d.tables[t] EXCEPT !.rows = {}, !.seq = 1]
                  ELSE d.tables[t]]])

\* faulty variant: setval(..., true), the next value is one past the argument
SetvalStmt_called(d, m) ==
    IF ~d.tables[m].exists THEN Failed(d)
    ELSE Done([d EXCEPT !.tables[m].seq =
                  (IF d.tables[m].rows = {} THEN 1 ELSE MaxOf(Ids(d.tables[m].rows)) + 1) + 1])

\* SELECT setval('<t>_<t>_id_seq', (SELECT COALESCE(MAX(<t>_id)+1, 1) FROM <t>), false)
SetvalStmt(d, m) ==
    IF ~d.tables[m].exists THEN Failed(d)
    ELSE Done([d EXCEPT !.tables[m].seq =
                  IF d.tables[m].rows = {} THEN 1 ELSE MaxOf(Ids(d.tables[m].rows)) + 1])

\* faulty variant: DROP TABLE ... CASCADE without IF EXISTS
DropTableStmt_strict(d, m) ==
    IF ~d.tables[m].exists THEN Failed(d)
    ELSE Done([d EXCEPT !.tables = [t \in Models |->
                  IF t = m THEN NoTable ELSE [d.tables[t] EXCEPT !.fks = @ \ {m}]]])

\* DROP TABLE IF EXISTS <table> CASCADE: the table, its sequence and the
\* foreign keys of other tables that reference it go; their rows stay
DropTableStmt(d, m) ==
    Done([d EXCEPT !.tables = [t \in Models |->
             IF t = m THEN NoTable ELSE [d.tables[t] EXCEPT !.fks = @ \ {m}]]])

\* INSERT INTO <table> (<columns after the key>) VALUES (...): the key is the
\* sequence's next value, drawn before the constraints are checked
InsertStmt(d, m, vals) ==
    IF ~d.tables[m].exists THEN Failed(d)
    ELSE LET t == d.tables[m]
             row == <<t.seq>> \o vals
             drawn == [d EXCEPT !.tables[m].seq = t.seq + 1]
         IN IF CheckOk(m, row) /\ FkOk(d, m, row) /\ t.seq \notin Ids(t.rows)
            THEN Done([drawn EXCEPT !.tables[m].rows = t.rows \cup {row}])
            ELSE Failed(drawn)

\* DELETE FROM <table>: rows of referencing tables go with ON DELETE CASCADE
DeleteStmt(d, m) ==
    IF ~d.tables[m].exists THEN Failed(d)
    ELSE Done([d EXCEPT !.tables = [t \in Models |->
                  IF t = m THEN [d.tables[t] EXCEPT !.rows = {}]
                  ELSE IF m \in d.tables[t].fks
                       THEN [d.tables[t] EXCEPT !.rows =
                                {r \in @ : r[FkColumn(m)] \notin Ids(d.tables[m].rows)}]
                       ELSE d.tables[t]]])

\* SELECT <t>_id FROM <t>: the rows are read off the database it yields
SelectStmt(d, m) == IF d.tables[m].exists THEN Done(d) ELSE Failed(d)

Run(d, q) ==
    CASE q.op = "create" -> CreateTableStmt(d, q.table)
      [] q.op = "truncate" -> TruncateStmt(d, q.table)
      [] q.op = "setval" -> SetvalStmt(d, q.table)
      [] q.op = "drop" -> DropTableStmt(d, q.table)
      [] q.op = "insert" -> InsertStmt(d, q.table, q.vals)
      [] q.op = "delete" -> DeleteStmt(d, q.table)
      [] q.op = "select" -> SelectStmt(d, q.table)

(***************************************************************************)
(* COPY ... WITH CSV HEADER: the text form of a table.  A file is a        *)
(* sequence of lines, a line a sequence of text fields; integers are       *)
(* written in decimal and read back by parsing.                            *)
(***************************************************************************)
Digit == <<"0", "1", "2", "3", "4", "5", "6", "7", "8", "9">>

RECURSIVE IntText(_)
IntText(n) == IF n < 10 THEN Digit[n + 1] ELSE IntText(n \div 10) \o Digit[(n % 10) + 1]

Numerals == [n \in 0..130 |-> IntText(n)]
IsIntText(s) == \E n \in DOMAIN Numerals : Numerals[n] = s
TextInt(s) == CHOOSE n \in DOMAIN Numerals : Numerals[n] = s

RECURSIVE RowsInOrder(_)
RowsInOrder(rows) ==
    IF rows = {} THEN <<>>
    ELSE LET r == CHOOSE x \in rows : x[1] = MinOf(Ids(rows))
         IN <<r>> \o RowsInOrder(rows \ {r})

CsvLine(m, row) ==
    [i \in 1..Len(row) |-> IF ColumnIsInt(m)[i] THEN Numerals[row[i]] ELSE row[i]]

CsvParsable(m, line) ==
    /\ Len(line) = Len(get_columns(m))
    /\ \A i \in 1..Len(line) : ColumnIsInt(m)[i] => IsIntText(line[i])

CsvRow(m, line) ==
    [i \in 1..Len(line) |-> IF ColumnIsInt(m)[i] THEN TextInt(line[i]) ELSE line[i]]

\* faulty variant: COPY ... TO STDOUT WITH CSV, no header line
CopyTo_noheader(d, m) ==
    LET rs == RowsInOrder(d.tables[m].rows)
    IN [i \in 1..Len(rs) |-> CsvLine(m, rs[i])]

\* COPY <table> TO STDOUT WITH CSV HEADER: the header line, then one line per row
CopyTo(d, m) ==
    LET rs == RowsInOrder(d.tables[m].rows)
    IN <<get_columns(m)>> \o [i \in 1..Len(rs) |-> CsvLine(m, rs[i])]

\* faulty variant: lines that do not parse are skipped, the others loaded
CopyFrom_skipping(d, m, lines) ==
    IF ~d.tables[m].exists THEN Failed(d)
    ELSE LET all == IF lines = <<>> THEN <<>> ELSE Tail(lines)
             data == SelectSeq(all, LAMBDA l : CsvParsable(m, l))
             t == d.tables[m]
             new == [i \in 1..Len(data) |-> CsvRow(m, data[i])]
             newRows == {new[i] : i \in 1..Len(data)}
         IN IF /\ \A i \in 1..Len(data) : CheckOk(m, new[i]) /\ FkOk(d, m, new[i])
               /\ \A i, j \in 1..Len(data) : new[i][1] = new[j][1] => i = j
               /\ Ids(newRows) \cap Ids(t.rows) = {}
            THEN Done([d EXCEPT !.tables[m].rows = t.rows \cup newRows])
            ELSE Failed(d)

\* COPY <table> FROM STDIN WITH CSV HEADER: the first line is skipped, every
\* other line must parse and satisfy the table's constraints, or nothing loads
CopyFrom(d, m, lines) ==
    IF ~d.tables[m].exists THEN Failed(d)
    ELSE LET data == IF lines = <<>> THEN <<>> ELSE Tail(lines)
             t == d.tables[m]
         IN IF \E i \in 1..Len(data) : ~CsvParsable(m, data[i]) THEN Failed(d)
            ELSE LET new == [i \in 1..Len(data) |-> CsvRow(m, data[i])]
                     newRows == {new[i] : i \in 1..Len(data)}
                 IN IF /\ \A i \in 1..Len(data) : CheckOk(m, new[i]) /\ FkOk(d, m, new[i])
                       /\ \A i, j \in 1..Len(data) : new[i][1] = new[j][1] => i = j
                       /\ Ids(newRows) \cap Ids(t.rows) = {}
                    THEN Done([d EXCEPT !.tables[m].rows = t.rows \cup newRows])
                    ELSE Failed(d)

(***************************************************************************)
(* The client side.  w is the part of the world a method can change:       *)
(* [dbs, sess, conn, backup].  conn[c] says whether the object's conn      *)
(* attribute holds a handle, sess[c] is the database its server session    *)
(* is in, "none" once the server has ended it (the handle then stays).     *)
(* A method yields [ok, w]; ok = FALSE is a raised exception.              *)
(***************************************************************************)
Ok(w) == [ok |-> TRUE, w |-> w]
Err(w) == [ok |-> FALSE, w |-> w]

\* psycopg2.connect(dbname=...): refused by the server (accept = FALSE) or
\* because the database does not exist, it raises and assigns nothing
PgConnect(w, c, dbname, accept) ==
    IF accept /\ w.dbs[dbname].exists
    THEN Ok([w EXCEPT !.conn[c] = TRUE, !.sess[c] = dbname])
    ELSE Err(w)

\* conn.close(); self.conn = None
PgClose(w, c) == [w EXCEPT !.conn[c] = FALSE, !.sess[c] = "none"]

\* cur.execute(query) on the handle of c
Execute(w, c, q) ==
    IF w.sess[c] = "none" THEN Err(w)
    ELSE LET r == Run(w.dbs[w.sess[c]], q)
         IN [ok |-> r.ok, w |-> [w EXCEPT !.dbs[w.sess[c]] = r.db]]

\* the dbname the DataBase object is constructed with
DataBase_dbname == sandbox_db_params

\* faulty variant: connect() replaces a handle whose session has ended
DataBase_connect_reviving(w, accept) ==
    IF w.conn["db"] /\ w.sess["db"] # "none" THEN Ok(w)
    ELSE PgConnect(w, "db", DataBase_dbname, accept)

\* connect(): psycopg2.connect only when self.conn is None; a handle whose
\* session the server has ended is still a handle
DataBase_connect(w, accept) ==
    IF w.conn["db"] THEN Ok(w) ELSE PgConnect(w, "db", DataBase_dbname, accept)

DataBase_disconnect(w) ==
    IF w.conn["db"] THEN Ok(PgClose(w, "db")) ELSE Ok(w)

DataBase_execute_query(w, accept, q) ==
    LET r == DataBase_connect(w, accept)
    IN IF r.ok THEN Execute(r.w, "db", q) ELSE r

create_table(w, accept, m) == DataBase_execute_query(w, accept, Sql("create", m, <<>>))

reset_sequence(w, accept, table_name) ==
    IF table_name \in {"patient", "doctor", "appointment"}
    THEN DataBase_execute_query(w, accept, Sql("setval", table_name, <<>>))
    ELSE Ok(w)

delete_all_data(w, accept, m) ==
    LET r == DataBase_execute_query(w, accept, Sql("truncate", m, <<>>))
    IN IF r.ok THEN reset_sequence(r.w, accept, m) ELSE r

drop_table(w, accept, m) == DataBase_execute_query(w, accept, Sql("drop", m, <<>>))

\* setup_database(db): create_table on Patient, Doctor, Appointment in turn
setup_database(w, accept) ==
    LET p == create_table(w, accept, "patient")
        d == IF p.ok THEN create_table(p.w, accept, "doctor") ELSE p
    IN IF d.ok THEN create_table(d.w, accept, "appointment") ELSE d

save_patient(w, accept, patient) ==
    DataBase_execute_query(w, accept, Sql("insert", "patient", <<patient.name, patient.age, patient.gender>>))

save_doctor(w, accept, doctor) ==
    DataBase_execute_query(w, accept, Sql("insert", "doctor", <<doctor.name, doctor.specialty>>))

save_appointment(w, accept, appointment) ==
    DataBase_execute_query(w, accept, Sql("insert", "appointment",
        <<appointment.patient_id, appointment.doctor_id, appointment.appointment_date>>))

\* faulty variant: the loop is left after the first object
save_objects_first(w, accept, objects) ==
    IF objects = <<>> THEN Ok(w)
    ELSE LET obj == Head(objects)
         IN CASE obj.kind = "patient" -> save_patient(w, accept, obj)
              [] obj.kind = "doctor" -> save_doctor(w, accept, obj)
              [] obj.kind = "appointment" -> save_appointment(w, accept, obj)
              [] OTHER -> Ok(w)

RECURSIVE save_objects(_, _, _)
save_objects(w, accept, objects) ==
    IF objects = <<>> THEN Ok(w)
    ELSE LET obj == Head(objects)
             r == CASE obj.kind = "patient" -> save_patient(w, accept, obj)
                    [] obj.kind = "doctor" -> save_doctor(w, accept, obj)
                    [] obj.kind = "appointment" -> save_appointment(w, accept, obj)
                    [] OTHER -> Ok(w)
         IN IF r.ok THEN save_objects(r.w, accept, Tail(objects)) ELSE r

replace_all_data(w, accept, m, objects) ==
    LET r == delete_all_data(w, accept, m)
    IN IF r.ok THEN save_objects(r.w, accept, objects) ELSE r

\* open(backup_file, 'w') empties the file before self.conn.cursor() is
\* reached; there is no connect() on this path
backup_table(w, m) ==
    LET opened == [w EXCEPT !.backup = [exists |-> TRUE, lines |-> <<>>]]
    IN IF ~w.conn["db"] \/ w.sess["db"] = "none" THEN Err(opened)
       ELSE LET d == w.dbs[w.sess["db"]]
            IN IF ~d.tables[m].exists THEN Err(opened)
               ELSE Ok([opened EXCEPT !.backup.lines = CopyTo(d, m)])

\* faulty variant: the sequence is not repaired after the load
restore_table_unrepaired(w, accept, m) ==
    LET r == DataBase_execute_query(w, accept, Sql("truncate", m, <<>>))
    IN IF ~r.ok THEN r
       ELSE IF ~r.w.backup.exists \/ r.w.sess["db"] = "none" THEN Err(r.w)
       ELSE LET c == CopyFrom(r.w.dbs[r.w.sess["db"]], m, r.w.backup.lines)
            IN IF ~c.ok THEN Err(r.w)
               ELSE Ok([r.w EXCEPT !.dbs[r.w.sess["db"]] = c.db])

restore_table(w, accept, m) ==
    LET r == DataBase_execute_query(w, accept, Sql("truncate", m, <<>>))
    IN IF ~r.ok THEN r
       ELSE IF ~r.w.backup.exists \/ r.w.sess["db"] = "none" THEN Err(r.w)
       ELSE LET c == CopyFrom(r.w.dbs[r.w.sess["db"]], m, r.w.backup.lines)
            IN IF ~c.ok THEN Err(r.w)
               ELSE reset_sequence([r.w EXCEPT !.dbs[r.w.sess["db"]] = c.db], accept, m)

(***************************************************************************)
(* DatabaseSandbox: the statements of create_sandbox and drop_sandbox run  *)
(* on a control connection to the source database.                         *)
(***************************************************************************)
\* sessions connected to database n, the control connection not counted
Sessions(n) == Cardinality({c \in Clients : sess[c] = n}) + extSess[n]

\* faulty variant: the statement ends the sessions of other programs only
TerminatedSess_none(n) == sess

\* SELECT pg_terminate_backend(pid) ... WHERE datname = n AND pid <> pg_backend_pid()
TerminatedSess(n) == [c \in Clients |-> IF sess[c] = n THEN "none" ELSE sess[c]]
TerminatedExt(n) == [extSess EXCEPT ![n] = 0]

\* faulty variant: the statement names another database
DropDatabase_kept(d, n) == d

\* DROP DATABASE IF EXISTS n, once no session is connected to n
DropDatabase(d, n) == [d EXCEPT ![n] = NoDatabase]

\* log entries of a termination statement: the statement, and a mark when it
\* ended at least one session
Terminated(n, entry) ==
    IF Sessions(n) > 0 THEN <<entry, "ended_sessions">> ELSE <<entry>>

\* the statements of a log, the marks left out
Steps(l) == SelectSeq(l, LAMBDA e : e # "ended_sessions")

\* faulty variant: the manager connects with the source parameters
DatabaseSandbox_dbname_source == source_db_params

\* the dbname DatabaseSandbox.connect opens
DatabaseSandbox_dbname == sandbox_db_params

\* faulty variant: CREATE DATABASE without TEMPLATE
TemplateOf_empty(d) == EmptyDatabase

\* the database CREATE DATABASE ... TEMPLATE copies
TemplateOf(d) == d[source_db_params]

(***************************************************************************)
(* Inputs.                                                                 *)
(***************************************************************************)
Patient(name, age, gender) ==
    [kind |-> "patient", name |-> name, age |-> age, gender |-> gender]
Doctor(name, specialty) ==
    [kind |-> "doctor", name |-> name, specialty |-> specialty]
Appointment(patient_id, doctor_id, appointment_date) ==
    [kind |-> "appointment", patient_id |-> patient_id, doctor_id |-> doctor_id,
     appointment_date |-> appointment_date]

\* objects as generate_patients / generate_doctors build them, a patient whose
\* age the CHECK rejects, and an appointment naming patient 1 and doctor 1
GeneratedPatients == {Patient("Ivan", 30, "Male"), Patient("Anna", 30, "Female")}
GeneratedDoctors == {Doctor("Petr", "Cardiologist")}
RejectedPatients == {Patient("Ivan", 121, "Male")}
Appointments == {Appointment(1, 1, "2024-01-01 10:00:00")}
\* an object that is no Patient, Doctor or Appointment
Unsupported == [kind |-> "str", value |-> "note"]

\* fake.date_time_between(start_date, end_date)
date_time_between == "2024-01-01 10:00:00"

\* faulty variant: keys drawn from 1..n, as random.randint(1, n) draws them
generate_appointments_randint(w, accept, n) ==
    LET p == DataBase_execute_query(w, accept, Sql("select", "patient", <<>>))
        d == IF p.ok THEN DataBase_execute_query(p.w, accept, Sql("select", "doctor", <<>>)) ELSE p
    IN IF ~d.ok THEN [ok |-> FALSE, w |-> d.w, lists |-> {}]
       ELSE [ok |-> TRUE, w |-> d.w,
             lists |-> {[i \in 1..n |-> Appointment(pick[i][1], pick[i][2], date_time_between)] :
                           pick \in [1..n -> (1..n) \X (1..n)]}]

\* Appointment.generate_appointments(db, n): the two SELECTs, then n times
\* random.choice over each list of keys, which raises IndexError on an
\* empty list.  lists holds every list the random choices can produce.
generate_appointments(w, accept, n) ==
    LET p == DataBase_execute_query(w, accept, Sql("select", "patient", <<>>))
        d == IF p.ok THEN DataBase_execute_query(p.w, accept, Sql("select", "doctor", <<>>)) ELSE p
        patient_ids == Ids(d.w.dbs[d.w.sess["db"]].tables["patient"].rows)
        doctor_ids == Ids(d.w.dbs[d.w.sess["db"]].tables["doctor"].rows)
    IN IF ~d.ok THEN [ok |-> FALSE, w |-> d.w, lists |-> {}]
       ELSE IF n > 0 /\ (patient_ids = {} \/ doctor_ids = {})
       THEN [ok |-> FALSE, w |-> d.w, lists |-> {}]
       ELSE [ok |-> TRUE, w |-> d.w,
             lists |-> {[i \in 1..n |-> Appointment(pick[i][1], pick[i][2], date_time_between)] :
                           pick \in [1..n -> patient_ids \X doctor_ids]}]

\* lists of up to MaxObjs copies of one object, and every pair of objects
Repeat(o, n) == [i \in 1..n |-> o]
ObjectLists(S) == {Repeat(o, n) : o \in S, n \in 0..MaxObjs} \cup {<<o1, o2>> : o1, o2 \in S}

\* what the server may answer to a connection attempt of c; no attempt is
\* made while conn is set
Accepts(c) == IF conn[c] THEN {TRUE} ELSE BOOLEAN

\* a database as setup_database and a first save leave it
SeededDatabase ==
    [exists |-> TRUE,
     tables |-> [m \in Models |->
        IF m = "patient"
        THEN [EmptyTable(m) EXCEPT !.rows = {<<1, "Ivan", 30, "Male">>}, !.seq = 2]
        ELSE EmptyTable(m)]]

\* a sandbox left behind by an earlier run
StaleDatabase ==
    [exists |-> TRUE,
     tables |-> [m \in Models |->
        IF m = "patient"
        THEN [EmptyTable(m) EXCEPT !.rows = {<<1, "Anna", 30, "Female">>}, !.seq = 2]
        ELSE NoTable]]

NoCall ==
    [op |-> "none", m |-> "none", ok |-> FALSE, prev |-> "none", had |-> 0, nextval |-> 0,
     objects |-> <<>>]
NoRoundTrip == [phase |-> 0, m |-> "none", rows |-> {}]
Idle == [op |-> "none", m |-> "none", objects |-> <<>>, had |-> 0]
NoFile == [exists |-> FALSE, lines |-> <<>>]

World == [dbs |-> dbs, sess |-> sess, conn |-> conn, backup |-> backup]

SeqBounded(w) ==
    \A n \in DbNames, m \in Models : w.dbs[n].tables[m].seq <= MaxId + 1

(***************************************************************************)
(* DataBase calls.  They are made by the one program thread, so only       *)
(* while no DatabaseSandbox method is running.  last records the call and  *)
(* whether it returned (ok) or raised, and how the call before it ended    *)
(* when that was the same call on the same table (prev), the number of     *)
(* rows the table held before the call (had) and the next value of its     *)
(* sequence then (nextval); rt follows a backup_table, delete_all_data,    *)
(* restore_table sequence on one table.  hist names the calls a run        *)
(* records, and stays as Init sets it.  call is the DataBase method that   *)
(* has run some of its statements and not yet returned (Idle: none); the   *)
(* connection is in autocommit mode, so what such a method has done so far *)
(* is what every other session sees.                                       *)
(***************************************************************************)
TableOf(m) == dbs[DataBase_dbname].tables[m]

\* the calls whose outcome the recorded runs keep
Recorded == {"create_table", "delete_all_data", "restore_table"}

RoundTrip(op, m, r) ==
    IF op = "backup_table" /\ r.ok /\ TableOf(m).rows # {}
    THEN [phase |-> 1, m |-> m, rows |-> TableOf(m).rows]
    ELSE IF op = "delete_all_data" /\ r.ok /\ rt.phase = 1 /\ rt.m = m
    THEN [rt EXCEPT !.phase = 2]
    ELSE IF op = "restore_table" /\ rt.phase = 2 /\ rt.m = m
    THEN [rt EXCEPT !.phase = 3]
    ELSE NoRoundTrip

DataBaseCallWith(op, m, objects, r) ==
    /\ pc \in {"Unacquired", "Active"}
    /\ call = Idle
    /\ SeqBounded(r.w)
    /\ dbs' = r.w.dbs
    /\ sess' = r.w.sess
    /\ conn' = r.w.conn
    /\ backup' = r.w.backup
    /\ last' = IF op \in hist
               THEN [op |-> op, m |-> m, ok |-> r.ok,
                     prev |-> IF last.op = op /\ last.m = m
                              THEN (IF last.ok THEN "returned" ELSE "raised")
                              ELSE "none",
                     had |-> IF m \in Models THEN Cardinality(TableOf(m).rows) ELSE 0,
                     nextval |-> IF m \in Models THEN TableOf(m).seq ELSE 0,
                     objects |-> objects]
               ELSE NoCall
    /\ rt' = IF "restore_table" \in hist THEN RoundTrip(op, m, r) ELSE NoRoundTrip
    /\ UNCHANGED <<extSess, pc, raised, outcome, log, snap, made, hist, given, call, cls, built, peer>>

DataBaseCall(op, m, r) == DataBaseCallWith(op, m, <<>>, r)

Call_create_table(m, accept) ==
    DataBaseCall("create_table", m, create_table(World, accept, m))

Call_setup_database(accept) ==
    DataBaseCall("setup_database", "none", setup_database(World, accept))

Call_drop_table(m, accept) ==
    DataBaseCall("drop_table", m, drop_table(World, accept, m))

Call_delete_all_data(m, accept) ==
    DataBaseCall("delete_all_data", m, delete_all_data(World, accept, m))

Call_replace_all_data(m, objects, accept) ==
    DataBaseCallWith("replace_all_data", m, objects, replace_all_data(World, accept, m, objects))

Call_save_objects(objects, accept) ==
    DataBaseCallWith("save_objects", IF objects = <<>> THEN "none" ELSE objects[1].kind,
                     objects, save_objects(World, accept, objects))

Call_generate_appointments(n, accept) ==
    LET r == generate_appointments(World, accept, n)
    IN IF r.ok
       THEN \E objects \in r.lists : DataBaseCallWith("generate_appointments", "appointment", objects, r)
       ELSE DataBaseCallWith("generate_appointments", "appointment", <<>>, r)

\* replace_all_data, first statement: self.delete_all_data(model_class)
Replace_delete_all_data(m, objects, accept) ==
    /\ pc \in {"Unacquired", "Active"}
    /\ call = Idle
    /\ Len(objects) <= MaxId
    /\ LET r == delete_all_data(World, accept, m)
       IN /\ dbs' = r.w.dbs
          /\ sess' = r.w.sess
          /\ conn' = r.w.conn
          /\ backup' = r.w.backup
          /\ call' = IF r.ok
                     THEN [op |-> "replace_all_data", m |-> m, objects |-> objects,
                           had |-> Cardinality(TableOf(m).rows)]
                     ELSE Idle
          /\ last' = IF r.ok \/ "replace_all_data" \notin hist
                     THEN NoCall
                     ELSE [NoCall EXCEPT !.op = "replace_all_data", !.m = m, !.objects = objects]
    /\ rt' = NoRoundTrip
    /\ UNCHANGED <<extSess, pc, raised, outcome, log, snap, made, hist, given, cls, built, peer>>

\* replace_all_data, second statement: self.save_objects(objects)
Replace_save_objects(accept) ==
    /\ call.op = "replace_all_data"
    /\ LET r == save_objects(World, accept, call.objects)
       IN /\ dbs' = r.w.dbs
          /\ sess' = r.w.sess
          /\ conn' = r.w.conn
          /\ backup' = r.w.backup
          /\ last' = IF "replace_all_data" \in hist
                     THEN [NoCall EXCEPT !.op = "replace_all_data", !.m = call.m, !.ok = r.ok,
                                         !.had = call.had, !.objects = call.objects]
                     ELSE NoCall
    /\ call' = Idle
    /\ rt' = NoRoundTrip
    /\ UNCHANGED <<extSess, pc, raised, outcome, log, snap, made, hist, given, cls, built, peer>>

Call_backup_table(m) ==
    DataBaseCall("backup_table", m, backup_table(World, m))

Call_restore_table(m, accept) ==
    DataBaseCall("restore_table", m, restore_table(World, accept, m))

Call_disconnect ==
    DataBaseCall("disconnect", "none", DataBase_disconnect(World))

(***************************************************************************)
(* lib/orm_docstrings.py: the variant of the library whose model classes   *)
(* declare their columns in the class docstring, one line `name: TYPE ...` *)
(* per column, and whose get_columns reads them back with re.findall and   *)
(* a pattern of two groups: \w+, then a colon and a space, then \w+, a     *)
(* space and whatever is left of the line.                                 *)
(* A text is the sequence of its lines and a line the sequence of its      *)
(* tokens: a token is a maximal run of \w characters (a word) or a single  *)
(* character that is not \w.                                               *)
(***************************************************************************)
NonWord == {" ", ":", "(", ")", ",", ".", "'", "<", ">", "=", "\""}

\* the columns the classes declare, name and type, in declaration order
\* (the same names and types in lib/orm.py and lib/orm_docstrings.py)
Fields(m) ==
    LET serial == <<"SERIAL", " ", "PRIMARY", " ", "KEY">>
        varchar(n, len) == <<"VARCHAR", "(", len, ")", " ", "CHECK", " ", "(", "char_length", "(", n, ")",
                             " ", ">", " ", "0", ")">>
        age == <<"INTEGER", " ", "CHECK", " ", "(", "age", " ", ">", "=", " ", "0", " ", "AND", " ",
                 "age", " ", "<", "=", " ", "120", ")">>
        gender == <<"VARCHAR", "(", "10", ")", " ", "CHECK", " ", "(", "gender", " ", "IN", " ", "(",
                    "'", "Male", "'", ",", " ", "'", "Female", "'", ")", ")">>
        references(t, c) == <<"INTEGER", " ", "REFERENCES", " ", t, "(", c, ")", " ", "ON", " ",
                              "DELETE", " ", "CASCADE">>
        field(n, t) == [name |-> n, type |-> t]
    IN CASE m = "patient" -> <<field("patient_id", serial), field("name", varchar("name", "100")),
                               field("age", age), field("gender", gender)>>
         [] m = "doctor" -> <<field("doctor_id", serial), field("name", varchar("name", "100")),
                              field("specialty", varchar("specialty", "100"))>>
         [] m = "appointment" -> <<field("appointment_id", serial),
                                   field("patient_id", references("patient", "patient_id")),
                                   field("doctor_id", references("doctor", "doctor_id")),
                                   field("appointment_date", <<"TIMESTAMP">>)>>

\* lib/orm.py: get_columns returns the literal list of 'name TYPE ...' strings
ColumnDefs(m) == [i \in 1..Len(Fields(m)) |-> <<Fields(m)[i].name, " ">> \o Fields(m)[i].type]

\* a line of a docstring, indented as the class body is
DocLine(tokens) == <<" ", " ", " ", " ">> \o tokens

\* cls.__doc__ of a model class of lib/orm_docstrings.py: an empty first
\* line, the description (a sentence of Russian words, which are \w
\* characters as well, written here with English ones), an empty line, the
\* field lines, the indentation of the closing quotes
Docstring(m) ==
    <<<<>>, DocLine(<<"Model", " ", "of", " ", "the", " ", m, " ", "data", ".">>), <<>>>>
        \o [i \in 1..Len(Fields(m)) |-> DocLine(<<Fields(m)[i].name, ":", " ">> \o Fields(m)[i].type)]
        \o <<DocLine(<<>>)>>

\* where the pattern matches in a line: a word, a colon, a space, a word, a
\* space; the dot stops at the end of the line and may match nothing
FieldMatches(line) ==
    {i \in 1..(Len(line) - 4) :
        /\ line[i] \notin NonWord
        /\ line[i + 1] = ":"
        /\ line[i + 2] = " "
        /\ line[i + 3] \notin NonWord
        /\ line[i + 4] = " "}

\* lib/orm_docstrings.py get_columns: one f"{field_name} {field_type}" for
\* each match of findall, which scans from left to right and takes, in a
\* line, the leftmost match, which runs to the end of the line
get_columns_docstring(doc) ==
    LET matched == SelectSeq(doc, LAMBDA line : FieldMatches(line) # {})
        column(line) == LET i == MinOf(FieldMatches(line))
                        IN <<line[i], " ">> \o SubSeq(line, i + 3, Len(line))
    IN [k \in 1..Len(matched) |-> column(matched[k])]

\* sql.Identifier(name) as the driver renders it: the name in double quotes
Identifier(name) == <<"\"", name, "\"">>

\* the column lists of the INSERT statements of save_patient, save_doctor
\* and save_appointment
InsertColumns(m) ==
    CASE m = "patient" -> <<"name", "age", "gender">>
      [] m = "doctor" -> <<"name", "specialty">>
      [] m = "appointment" -> <<"patient_id", "doctor_id", "appointment_date">>

\* a model class: the module that defines it, __name__.lower() and __doc__
ModelClass(module, m, doc) == [module |-> module, name |-> m, doc |-> doc]

\* cls.get_columns(): the literal list in lib/orm.py, the field lines found
\* in the docstring in lib/orm_docstrings.py
Cls_get_columns(c) ==
    IF c.module = "orm" THEN ColumnDefs(c.name) ELSE get_columns_docstring(c.doc)

\* the statements built around a table or database name, by the place that
\* builds them: the tokens around the name as it is embedded, and the
\* column list the statement carries
Sites == {"create_table", "delete_all_data", "drop_table", "backup_table", "restore_table.truncate",
          "restore_table.copy", "save", "create_sandbox.drop", "create_sandbox.create",
          "drop_sandbox.drop"}

Statement(site, c) ==
    LET stmt(before, name, after, columns) ==
            [site |-> site, text |-> before \o name \o after, columns |-> columns]
        raw == <<c.name>>
    IN CASE site = "create_table" ->
              stmt(<<"CREATE", " ", "TABLE", " ", "IF", " ", "NOT", " ", "EXISTS", " ">>, raw, <<>>,
                   Cls_get_columns(c))
         [] site = "delete_all_data" ->
              stmt(<<"TRUNCATE", " ", "TABLE", " ">>, Identifier(c.name),
                   <<" ", "RESTART", " ", "IDENTITY", " ", "CASCADE">>, <<>>)
         [] site = "drop_table" ->
              stmt(<<"DROP", " ", "TABLE", " ", "IF", " ", "EXISTS", " ">>, Identifier(c.name),
                   <<" ", "CASCADE">>, <<>>)
         [] site = "backup_table" ->
              stmt(<<"COPY", " ">>, Identifier(c.name),
                   <<" ", "TO", " ", "STDOUT", " ", "WITH", " ", "CSV", " ", "HEADER">>, <<>>)
         [] site = "restore_table.truncate" ->
              stmt(<<"TRUNCATE", " ", "TABLE", " ">>, raw,
                   <<" ", "RESTART", " ", "IDENTITY", " ", "CASCADE">>, <<>>)
         [] site = "restore_table.copy" ->
              stmt(<<"COPY", " ">>, Identifier(c.name),
                   <<" ", "FROM", " ", "STDIN", " ", "WITH", " ", "CSV", " ", "HEADER">>, <<>>)
         [] site = "save" ->
              stmt(<<"INSERT", " ", "INTO", " ">>, raw, <<>>,
                   [i \in 1..Len(InsertColumns(c.name)) |-> <<InsertColumns(c.name)[i]>>])
         [] site = "create_sandbox.drop" ->
              stmt(<<"DROP", " ", "DATABASE", " ", "IF", " ", "EXISTS", " ">>,
                   Identifier(sandbox_db_params), <<>>, <<>>)
         [] site = "create_sandbox.create" ->
              stmt(<<"CREATE", " ", "DATABASE", " ">>, Identifier(sandbox_db_params),
                   <<" ", "TEMPLATE", " ">> \o Identifier(source_db_params), <<>>)
         [] site = "drop_sandbox.drop" ->
              stmt(<<"DROP", " ", "DATABASE", " ", "IF", " ", "EXISTS", " ">>,
                   Identifier(sandbox_db_params), <<>>, <<>>)

(***************************************************************************)
(* Declarations and statements.  cls is the model class at hand, built the *)
(* last column list or statement built for it.                             *)
(***************************************************************************)
\* longest docstring body drawn for a sample class
MaxLines == 2

NoClass == ModelClass("none", "none", <<>>)
NoText == [site |-> "none", text |-> <<>>, columns |-> <<>>]

\* the model classes of the two modules
EntityClasses ==
    {ModelClass(module, m, IF module = "orm" THEN <<>> ELSE Docstring(m)) :
        module \in {"orm", "orm_docstrings"}, m \in Models}

\* classes declared like them, with a docstring of up to MaxLines lines: a
\* declaration, one with a one-word type, one whose type is followed by a
\* parenthesis, a sentence, an empty line, a declaration with a constraint
SampleClasses ==
    LET lines == {DocLine(<<"id", ":", " ", "SERIAL", " ", "PRIMARY", " ", "KEY">>),
                  DocLine(<<"created", ":", " ", "TIMESTAMP">>),
                  DocLine(<<"title", ":", " ", "VARCHAR", "(", "100", ")">>),
                  DocLine(<<"Stores", " ", "one", " ", "row", ".">>),
                  <<>>,
                  DocLine(<<"size", ":", " ", "INTEGER", " ", "CHECK", " ", "(", "size", " ", ">", " ",
                            "0", ")">>)}
    IN {ModelClass("orm_docstrings", "sample", doc) :
           doc \in UNION {[1..n -> lines] : n \in 0..MaxLines}}

\* model_class.get_columns()
GetColumns ==
    /\ cls # NoClass
    /\ built' = [site |-> "get_columns", text |-> <<>>, columns |-> Cls_get_columns(cls)]
    /\ UNCHANGED <<dbs, sess, conn, extSess, pc, backup, raised, outcome, log, snap, made, last, rt,
                   hist, given, call, cls, peer>>

\* a DataBase or DatabaseSandbox method builds its statement
Build(site) ==
    /\ cls # NoClass
    /\ site = "save" => cls.name \in Models
    /\ built' = Statement(site, cls)
    /\ UNCHANGED <<dbs, sess, conn, extSess, pc, backup, raised, outcome, log, snap, made, last, rt,
                   hist, given, call, cls, peer>>

(***************************************************************************)
(* DatabaseSandbox.  pc is the manager's position:                         *)
(*   Unacquired -> cs_term_source -> cs_term_sandbox -> cs_drop ->         *)
(*   cs_create -> enter_connect -> Active -> with_exit -> ds_term ->       *)
(*   ds_drop -> Unacquired                                                 *)
(* outcome is how the last __enter__ / __exit__ ended, log the steps the   *)
(* running (or last) one has taken, raised whether the body raised, snap   *)
(* the source as the template copy saw it, made whether a database this    *)
(* acquire created exists, given the exception the with statement hands   *)
(* to its caller once __exit__ has ended.                                  *)
(***************************************************************************)
NoError == [error |-> "none", context |-> "none"]

\* faulty variant: __exit__ catches the error of drop_sandbox
Propagated_swallowed(e, d) ==
    IF e # "none" THEN [error |-> e, context |-> "none"] ELSE NoError

\* what leaves a with statement whose body raised e and whose __exit__
\* raised d ("none": did not raise).  __exit__ has no return statement, so
\* it returns None and e is re-raised; an error raised inside __exit__
\* replaces e and carries it as its __context__.
Propagated(e, d) ==
    IF d # "none" THEN [error |-> d, context |-> e]
    ELSE IF e # "none" THEN [error |-> e, context |-> "none"]
    ELSE NoError

Manager(newpc, newoutcome, newlog) ==
    /\ pc' = newpc
    /\ outcome' = newoutcome
    /\ log' = newlog
    /\ last' = NoCall
    /\ rt' = NoRoundTrip
    /\ backup' = backup
    /\ hist' = hist
    /\ call' = call
    /\ UNCHANGED <<cls, built, peer>>
    /\ given' = CASE newoutcome = "exit_ok" -> Propagated(IF raised THEN "E" ELSE "none", "none")
                  [] newoutcome = "exit_raised" -> Propagated(IF raised THEN "E" ELSE "none", "D")
                  [] OTHER -> NoError

\* __enter__ -> create_sandbox: psycopg2.connect to the source
SandboxEnter(accept) ==
    /\ pc = "Unacquired"
    /\ raised' = FALSE
    /\ made' = FALSE
    /\ IF accept
       THEN Manager("cs_term_source", "running", <<"connect_source">>)
       ELSE Manager("Unacquired", "enter_raised", <<>>)
    /\ UNCHANGED <<dbs, sess, conn, extSess, snap>>

CreateSandbox_TerminateSource ==
    /\ pc = "cs_term_source"
    /\ sess' = TerminatedSess(source_db_params)
    /\ extSess' = TerminatedExt(source_db_params)
    /\ Manager("cs_term_sandbox", "running", log \o Terminated(source_db_params, "terminate_source"))
    /\ UNCHANGED <<dbs, conn, raised, snap, made>>

CreateSandbox_TerminateSandbox ==
    /\ pc = "cs_term_sandbox"
    /\ sess' = TerminatedSess(sandbox_db_params)
    /\ extSess' = TerminatedExt(sandbox_db_params)
    /\ Manager("cs_drop", "running", log \o Terminated(sandbox_db_params, "terminate_sandbox"))
    /\ UNCHANGED <<dbs, conn, raised, snap, made>>

\* DROP DATABASE IF EXISTS <sandbox>; on failure the finally clause closes
\* the control connection and the error leaves __enter__
CreateSandbox_Drop ==
    /\ pc = "cs_drop"
    /\ IF dbs[sandbox_db_params].exists /\ Sessions(sandbox_db_params) > 0
       THEN /\ Manager("Unacquired", "enter_raised", log \o <<"drop_failed", "close">>)
            /\ dbs' = dbs
       ELSE /\ Manager("cs_create", "running",
                       Append(log, IF dbs[sandbox_db_params].exists THEN "drop" ELSE "drop_skipped"))
            /\ dbs' = DropDatabase(dbs, sandbox_db_params)
    /\ UNCHANGED <<sess, conn, extSess, raised, snap, made>>

\* CREATE DATABASE <sandbox> TEMPLATE <source>: refused while another
\* session is connected to the source
CreateSandbox_Create ==
    /\ pc = "cs_create"
    /\ IF Sessions(source_db_params) > 0 \/ dbs[sandbox_db_params].exists
       THEN /\ Manager("Unacquired", "enter_raised", log \o <<"create_failed", "close">>)
            /\ UNCHANGED <<dbs, snap, made>>
       ELSE /\ Manager("enter_connect", "running", log \o <<"create", "close">>)
            /\ dbs' = [dbs EXCEPT ![sandbox_db_params] = TemplateOf(dbs)]
            /\ snap' = dbs[source_db_params]
            /\ made' = TRUE
    /\ UNCHANGED <<sess, conn, extSess, raised>>

DatabaseSandbox_connect(w, accept) ==
    IF w.conn["sandbox"] THEN Ok(w) ELSE PgConnect(w, "sandbox", DatabaseSandbox_dbname, accept)

DatabaseSandbox_disconnect(w) ==
    IF w.conn["sandbox"] THEN PgClose(w, "sandbox") ELSE w

\* __enter__: self.connect() after create_sandbox has returned
SandboxEnter_Connect(accept) ==
    /\ pc = "enter_connect"
    /\ LET r == DatabaseSandbox_connect(World, accept)
       IN /\ sess' = r.w.sess
          /\ conn' = r.w.conn
          /\ IF r.ok
             THEN Manager("Active", "enter_ok", Append(log, "connect_sandbox"))
             ELSE Manager("Unacquired", "enter_raised", Append(log, "connect_failed"))
    /\ UNCHANGED <<dbs, extSess, raised, snap, made>>

\* the body of the with statement (or the test between setUp and tearDown)
\* ends, by returning or by raising; __exit__ is called either way
BodyEnds(raises) ==
    /\ pc = "Active"
    /\ raised' = raises
    /\ Manager("with_exit", "running", <<>>)
    /\ UNCHANGED <<dbs, sess, conn, extSess, snap, made>>

\* __exit__: self.disconnect(), then drop_sandbox: psycopg2.connect to the source
SandboxExit(accept) ==
    /\ pc = "with_exit"
    /\ LET w == DatabaseSandbox_disconnect(World)
       IN /\ sess' = w.sess
          /\ conn' = w.conn
    /\ IF accept
       THEN Manager("ds_term", "running", <<"disconnect", "connect_source">>)
       ELSE Manager("Unacquired", "exit_raised", <<"disconnect">>)
    /\ UNCHANGED <<dbs, extSess, raised, snap, made>>

DropSandbox_Terminate ==
    /\ pc = "ds_term"
    /\ sess' = TerminatedSess(sandbox_db_params)
    /\ extSess' = TerminatedExt(sandbox_db_params)
    /\ Manager("ds_drop", "running", log \o Terminated(sandbox_db_params, "terminate_sandbox"))
    /\ UNCHANGED <<dbs, conn, raised, snap, made>>

\* faulty variant: the error of DROP DATABASE is caught and not re-raised
DropSandbox_Drop_swallowed ==
    /\ pc = "ds_drop"
    /\ IF dbs[sandbox_db_params].exists /\ Sessions(sandbox_db_params) > 0
       THEN /\ Manager("Unacquired", "exit_ok", log \o <<"drop_failed", "close">>)
            /\ UNCHANGED <<dbs, made>>
       ELSE /\ Manager("Unacquired", "exit_ok",
                       log \o <<IF dbs[sandbox_db_params].exists THEN "drop" ELSE "drop_skipped", "close">>)
            /\ dbs' = DropDatabase(dbs, sandbox_db_params)
            /\ made' = FALSE
    /\ UNCHANGED <<sess, conn, extSess, raised, snap>>

\* DROP DATABASE IF EXISTS <sandbox>; the finally clause closes the control
\* connection, and an error of the statement leaves drop_sandbox and __exit__
DropSandbox_Drop ==
    /\ pc = "ds_drop"
    /\ IF dbs[sandbox_db_params].exists /\ Sessions(sandbox_db_params) > 0
       THEN /\ Manager("Unacquired", "exit_raised", log \o <<"drop_failed", "close">>)
            /\ UNCHANGED <<dbs, made>>
       ELSE /\ Manager("Unacquired", "exit_ok",
                       log \o <<IF dbs[sandbox_db_params].exists THEN "drop" ELSE "drop_skipped", "close">>)
            /\ dbs' = DropDatabase(dbs, sandbox_db_params)
            /\ made' = FALSE
    /\ UNCHANGED <<sess, conn, extSess, raised, snap>>

\* DatabaseSandbox.execute_query: connect() if conn is None, then execute
Sandbox_execute_query(q, accept) ==
    /\ pc \in {"Unacquired", "Active"}
    /\ LET c == DatabaseSandbox_connect(World, accept)
           r == IF c.ok THEN Execute(c.w, "sandbox", q) ELSE c
       IN /\ SeqBounded(r.w)
          /\ dbs' = r.w.dbs
          /\ sess' = r.w.sess
          /\ conn' = r.w.conn
          /\ last' = [op |-> "execute_query", m |-> q.table, ok |-> r.ok, prev |-> "none",
                      had |-> 0, nextval |-> 0, objects |-> <<>>]
    /\ rt' = NoRoundTrip
    /\ UNCHANGED <<extSess, pc, backup, raised, outcome, log, snap, made, hist, given, call, cls, built, peer>>

(***************************************************************************)
(* Other programs: a session may connect to, or leave, an existing         *)
(* database at any moment.                                                 *)
(***************************************************************************)
ExtConnect(n) ==
    /\ dbs[n].exists
    /\ extSess[n] < MaxExt
    /\ extSess' = [extSess EXCEPT ![n] = @ + 1]
    /\ UNCHANGED <<dbs, sess, conn, pc, backup, raised, outcome, log, snap, made, last, rt, hist, given, call, cls, built, peer>>

ExtDisconnect(n) ==
    /\ extSess[n] > 0
    /\ extSess' = [extSess EXCEPT ![n] = @ - 1]
    /\ UNCHANGED <<dbs, sess, conn, pc, backup, raised, outcome, log, snap, made, last, rt, hist, given, call, cls, built, peer>>

(***************************************************************************)
(* A second DatabaseSandbox, constructed in another program with the same  *)
(* sandbox parameters and the parameters of another source database, which *)
(* holds no tables and to which no other program connects.  Its session on *)
(* the sandbox is one of the sessions of other programs (extSess), alive   *)
(* as long as it holds a handle and no termination statement has ended it. *)
(* peer.pc is its position, peer.conn whether its conn holds a handle,     *)
(* peer.raced whether it has dropped the sandbox while the first manager   *)
(* was Active.                                                             *)
(***************************************************************************)
NoPeer == [pc |-> "Unacquired", conn |-> FALSE, raced |-> FALSE]

\* __enter__ -> create_sandbox: connects to its own source and ends the
\* other sessions there, of which there are none
Peer_Enter ==
    /\ peer.pc = "Unacquired"
    /\ peer' = [peer EXCEPT !.pc = "cs_term_sandbox"]
    /\ UNCHANGED <<dbs, sess, conn, extSess, pc, backup, raised, outcome, log, snap, made, last, rt,
                   hist, given, call, cls, built>>

\* the termination statement on the sandbox, of create_sandbox and of
\* drop_sandbox
Peer_TerminateSandbox ==
    /\ peer.pc \in {"cs_term_sandbox", "ds_term"}
    /\ sess' = TerminatedSess(sandbox_db_params)
    /\ extSess' = TerminatedExt(sandbox_db_params)
    /\ peer' = [peer EXCEPT !.pc = IF peer.pc = "ds_term" THEN "ds_drop" ELSE "cs_drop"]
    /\ UNCHANGED <<dbs, conn, pc, backup, raised, outcome, log, snap, made, last, rt, hist, given, call,
                   cls, built>>

\* DROP DATABASE IF EXISTS <sandbox>, of create_sandbox and of drop_sandbox
Peer_Drop ==
    /\ peer.pc \in {"cs_drop", "ds_drop"}
    /\ IF dbs[sandbox_db_params].exists /\ Sessions(sandbox_db_params) > 0
       THEN /\ peer' = [peer EXCEPT !.pc = "Unacquired"]
            /\ dbs' = dbs
       ELSE /\ peer' = [peer EXCEPT !.pc = IF peer.pc = "cs_drop" THEN "cs_create" ELSE "Unacquired",
                                    !.raced = @ \/ (pc = "Active" /\ dbs[sandbox_db_params].exists)]
            /\ dbs' = DropDatabase(dbs, sandbox_db_params)
    /\ UNCHANGED <<sess, conn, extSess, pc, backup, raised, outcome, log, snap, made, last, rt, hist,
                   given, call, cls, built>>

\* CREATE DATABASE <sandbox> TEMPLATE <its source>
Peer_Create ==
    /\ peer.pc = "cs_create"
    /\ IF dbs[sandbox_db_params].exists
       THEN /\ peer' = [peer EXCEPT !.pc = "Unacquired"]
            /\ dbs' = dbs
       ELSE /\ peer' = [peer EXCEPT !.pc = "enter_connect"]
            /\ dbs' = [dbs EXCEPT ![sandbox_db_params] = EmptyDatabase]
    /\ UNCHANGED <<sess, conn, extSess, pc, backup, raised, outcome, log, snap, made, last, rt, hist,
                   given, call, cls, built>>

\* __enter__: self.connect() to the sandbox
Peer_Connect ==
    /\ peer.pc = "enter_connect"
    /\ IF dbs[sandbox_db_params].exists
       THEN /\ peer' = [peer EXCEPT !.pc = "Active", !.conn = TRUE]
            /\ extSess' = [extSess EXCEPT ![sandbox_db_params] = @ + 1]
       ELSE /\ peer' = [peer EXCEPT !.pc = "Unacquired"]
            /\ extSess' = extSess
    /\ UNCHANGED <<dbs, sess, conn, pc, backup, raised, outcome, log, snap, made, last, rt, hist, given,
                   call, cls, built>>

\* __exit__: self.disconnect(), then drop_sandbox connects to its source
Peer_Exit ==
    /\ peer.pc = "Active"
    /\ peer' = [peer EXCEPT !.pc = "ds_term", !.conn = FALSE]
    /\ extSess' = IF peer.conn /\ extSess[sandbox_db_params] > 0
                  THEN [extSess EXCEPT ![sandbox_db_params] = @ - 1]
                  ELSE extSess
    /\ UNCHANGED <<dbs, sess, conn, pc, backup, raised, outcome, log, snap, made, last, rt, hist, given,
                   call, cls, built>>

(***************************************************************************)
(* Specification of the sandbox life cycle: the manager, the sessions of   *)
(* other programs, and DataBase calls on the patient table.                *)
(***************************************************************************)
SpecModels == {"patient"}
SpecObjects == ObjectLists({Patient("Anna", 30, "Female")})
SandboxQueries == {Sql("insert", "patient", <<"Anna", 30, "Female">>), Sql("delete", "patient", <<>>)}

Init ==
    /\ dbs \in [DbNames -> {NoDatabase, EmptyDatabase, SeededDatabase, StaleDatabase}]
    /\ dbs[source_db_params] \in {EmptyDatabase, SeededDatabase}
    /\ dbs[sandbox_db_params] \in {NoDatabase, StaleDatabase}
    /\ sess = [c \in Clients |-> "none"]
    /\ conn = [c \in Clients |-> FALSE]
    /\ extSess \in [DbNames -> 0..MaxExt]
    /\ \A n \in DbNames : ~dbs[n].exists => extSess[n] = 0
    /\ pc = "Unacquired"
    /\ backup = NoFile
    /\ raised = FALSE
    /\ outcome = "none"
    /\ log = <<>>
    /\ snap = NoDatabase
    /\ made = FALSE
    /\ last = NoCall
    /\ rt = NoRoundTrip
    /\ hist = {}
    /\ given = NoError
    /\ call = Idle
    /\ cls = NoClass
    /\ built = NoText
    /\ peer = NoPeer

Next ==
    \/ \E a \in BOOLEAN : SandboxEnter(a)
    \/ CreateSandbox_TerminateSource
    \/ CreateSandbox_TerminateSandbox
    \/ CreateSandbox_Drop
    \/ CreateSandbox_Create
    \/ \E a \in Accepts("sandbox") : SandboxEnter_Connect(a)
    \/ \E raises \in BOOLEAN : BodyEnds(raises)
    \/ \E a \in BOOLEAN : SandboxExit(a)
    \/ DropSandbox_Terminate
    \/ DropSandbox_Drop
    \/ \E q \in SandboxQueries, a \in Accepts("sandbox") : Sandbox_execute_query(q, a)
    \/ \E m \in SpecModels, a \in Accepts("db") : Call_create_table(m, a)
    \/ \E m \in SpecModels, a \in Accepts("db") : Call_drop_table(m, a)
    \/ \E m \in SpecModels, a \in Accepts("db") : Call_delete_all_data(m, a)
    \/ \E m \in SpecModels, o \in SpecObjects, a \in Accepts("db") : Call_replace_all_data(m, o, a)
    \/ \E o \in SpecObjects, a \in Accepts("db") : Call_save_objects(o, a)
    \/ \E m \in SpecModels, a \in Accepts("db") : Call_restore_table(m, a)
    \/ Call_disconnect
    \/ \E n \in DbNames : ExtConnect(n)
    \/ \E n \in DbNames : ExtDisconnect(n)

Spec == Init /\ [][Next]_vars

(***************************************************************************)
(* The state the tests' setUp leaves: a sandbox acquired as a clone of the *)
(* source, the manager connected to it, a DataBase constructed on the      *)
(* sandbox parameters and not yet connected.  Of the calls that follow,    *)
(* those named in ops are recorded.                                        *)
(***************************************************************************)
AcquiredRecording(source, ops) ==
    /\ dbs = [n \in DbNames |-> source]
    /\ sess = [c \in Clients |-> IF c = "sandbox" THEN DatabaseSandbox_dbname ELSE "none"]
    /\ conn = [c \in Clients |-> c = "sandbox"]
    /\ extSess = [n \in DbNames |-> 0]
    /\ pc = "Active"
    /\ backup = NoFile
    /\ raised = FALSE
    /\ outcome = "enter_ok"
    /\ log = <<"connect_source", "terminate_source", "terminate_sandbox", "drop_skipped",
               "create", "close", "connect_sandbox">>
    /\ snap = source
    /\ made = TRUE
    /\ last = NoCall
    /\ rt = NoRoundTrip
    /\ hist = ops
    /\ given = NoError
    /\ call = Idle
    /\ cls = NoClass
    /\ built = NoText
    /\ peer = NoPeer

Acquired(source) == AcquiredRecording(source, Recorded)

\* a source holding the doctor table with one doctor
DoctorTable == [EmptyTable("doctor") EXCEPT !.rows = {<<1, "Petr", "Cardiologist">>}, !.seq = 2]
DoctorDatabase ==
    [exists |-> TRUE, tables |-> [m \in Models |-> IF m = "doctor" THEN DoctorTable ELSE NoTable]]

\* a source as setup_database leaves it, with one doctor
SetupDatabase ==
    [exists |-> TRUE,
     tables |-> [m \in Models |-> IF m = "doctor" THEN DoctorTable ELSE EmptyTable(m)]]

ListsOf(m, lists) == {o \in lists : \A i \in 1..Len(o) : o[i].kind = m}

(***************************************************************************)
(* Specification of the repository's schema and row operations: any        *)
(* sequence of create_table, drop_table, delete_all_data, replace_all_data *)
(* and save_objects on Patient, Doctor and Appointment.                    *)
(***************************************************************************)
RepoModels == Models
RepoObjects ==
    ObjectLists(GeneratedPatients \cup RejectedPatients \cup GeneratedDoctors \cup Appointments)

InitRepo == Acquired(DoctorDatabase)

NextRepo ==
    \/ \E m \in RepoModels, a \in Accepts("db") : Call_create_table(m, a)
    \/ \E m \in RepoModels, a \in Accepts("db") : Call_drop_table(m, a)
    \/ \E m \in RepoModels, a \in Accepts("db") : Call_delete_all_data(m, a)
    \/ \E m \in RepoModels, a \in Accepts("db") :
          \E o \in ListsOf(m, RepoObjects) : Call_replace_all_data(m, o, a)
    \/ \E o \in RepoObjects, a \in Accepts("db") : Call_save_objects(o, a)

SpecRepo == InitRepo /\ [][NextRepo]_vars

(***************************************************************************)
(* Specification of backup and restore: on the tables setup_database has   *)
(* created, any sequence of save_objects, delete_all_data, backup_table    *)
(* and restore_table on Patient, Doctor and Appointment.                   *)
(***************************************************************************)
InitBackup == Acquired(SetupDatabase)

NextBackup ==
    \/ \E o \in RepoObjects, a \in Accepts("db") : Call_save_objects(o, a)
    \/ \E m \in RepoModels, a \in Accepts("db") : Call_delete_all_data(m, a)
    \/ \E m \in RepoModels : Call_backup_table(m)
    \/ \E m \in RepoModels, a \in Accepts("db") : Call_restore_table(m, a)

SpecBackup == InitBackup /\ [][NextBackup]_vars

(***************************************************************************)
(* Specification of the schema calls: from an empty sandbox, any sequence  *)
(* of setup_database, create_table, drop_table and save_objects of one     *)
(* object.                                                                 *)
(***************************************************************************)
SchemaObjects == {<<o>> : o \in GeneratedPatients \cup GeneratedDoctors \cup Appointments}

InitSchema == AcquiredRecording(EmptyDatabase, {"setup_database", "drop_table"})

NextSchema ==
    \/ \E a \in Accepts("db") : Call_setup_database(a)
    \/ \E m \in Models, a \in Accepts("db") : Call_create_table(m, a)
    \/ \E m \in Models, a \in Accepts("db") : Call_drop_table(m, a)
    \/ \E o \in SchemaObjects, a \in Accepts("db") : Call_save_objects(o, a)

SpecSchema == InitSchema /\ [][NextSchema]_vars

(***************************************************************************)
(* Specification of replace_all_data statement by statement: on the tables *)
(* setup_database has created, replace_all_data on Patient and Doctor,     *)
(* with sessions of other programs connecting to the sandbox and leaving   *)
(* it at any moment, also between the two statements.                      *)
(***************************************************************************)
ReplaceObjects == ObjectLists(GeneratedPatients \cup RejectedPatients \cup GeneratedDoctors)

InitReplace == AcquiredRecording(SetupDatabase, {"replace_all_data"})

NextReplace ==
    \/ \E m \in {"patient", "doctor"}, a \in Accepts("db") :
          \E o \in ListsOf(m, ReplaceObjects) : Replace_delete_all_data(m, o, a)
    \/ \E a \in Accepts("db") : Replace_save_objects(a)
    \/ ExtConnect(sandbox_db_params)
    \/ ExtDisconnect(sandbox_db_params)

SpecReplace == InitReplace /\ [][NextReplace]_vars

(***************************************************************************)
(* Specification of saving objects: on the tables setup_database has       *)
(* created, any sequence of save_objects (of generated patients and        *)
(* doctors, and of lists holding an unsupported object) and                *)
(* delete_all_data.                                                        *)
(***************************************************************************)
SaveObjects == ObjectLists(GeneratedPatients \cup GeneratedDoctors \cup {Unsupported})

InitSave == AcquiredRecording(SetupDatabase, {"save_objects"})

NextSave ==
    \/ \E o \in SaveObjects, a \in Accepts("db") : Call_save_objects(o, a)
    \/ \E m \in {"patient", "doctor"}, a \in Accepts("db") : Call_delete_all_data(m, a)

SpecSave == InitSave /\ [][NextSave]_vars

(***************************************************************************)
(* Specification of generating appointments: on the tables setup_database  *)
(* has created, with its one doctor, any sequence of save_objects of       *)
(* generated patients, delete_all_data on patient and doctor,              *)
(* generate_appointments, and replace_all_data of the appointments just    *)
(* generated.                                                              *)
(***************************************************************************)
InitGenerate == AcquiredRecording(SetupDatabase, {"generate_appointments"})

NextGenerate ==
    \/ \E o \in ObjectLists(GeneratedPatients), a \in Accepts("db") : Call_save_objects(o, a)
    \/ \E m \in {"patient", "doctor"}, a \in Accepts("db") : Call_delete_all_data(m, a)
    \/ \E n \in 0..MaxObjs, a \in Accepts("db") : Call_generate_appointments(n, a)
    \/ \E a \in Accepts("db") :
          /\ last.op = "generate_appointments"
          /\ last.ok
          /\ Call_replace_all_data("appointment", last.objects, a)

SpecGenerate == InitGenerate /\ [][NextGenerate]_vars

(***************************************************************************)
(* Specification of the DataBase connection across the manager's cycle:    *)
(* from the state setUp leaves, the manager's __exit__ and __enter__ and   *)
(* the DataBase calls create_table, save_objects and disconnect, whose     *)
(* outcome is recorded.                                                    *)
(***************************************************************************)
InitSession == AcquiredRecording(SeededDatabase, {"create_table", "save_objects", "disconnect"})

NextSession ==
    \/ \E a \in BOOLEAN : SandboxEnter(a)
    \/ CreateSandbox_TerminateSource
    \/ CreateSandbox_TerminateSandbox
    \/ CreateSandbox_Drop
    \/ CreateSandbox_Create
    \/ \E a \in Accepts("sandbox") : SandboxEnter_Connect(a)
    \/ \E raises \in BOOLEAN : BodyEnds(raises)
    \/ \E a \in BOOLEAN : SandboxExit(a)
    \/ DropSandbox_Terminate
    \/ DropSandbox_Drop
    \/ \E m \in SpecModels, a \in Accepts("db") : Call_create_table(m, a)
    \/ \E o \in SpecObjects, a \in Accepts("db") : Call_save_objects(o, a)
    \/ Call_disconnect

SpecSession == InitSession /\ [][NextSession]_vars

(***************************************************************************)
(* Specification of two managers of one sandbox name: the manager, and the *)
(* second one in another program, each running __enter__ and __exit__ at   *)
(* its own pace.                                                           *)
(***************************************************************************)
InitRace ==
    /\ dbs = [n \in DbNames |-> IF n = source_db_params THEN SeededDatabase ELSE NoDatabase]
    /\ sess = [c \in Clients |-> "none"]
    /\ conn = [c \in Clients |-> FALSE]
    /\ extSess = [n \in DbNames |-> 0]
    /\ pc = "Unacquired"
    /\ backup = NoFile
    /\ raised = FALSE
    /\ outcome = "none"
    /\ log = <<>>
    /\ snap = NoDatabase
    /\ made = FALSE
    /\ last = NoCall
    /\ rt = NoRoundTrip
    /\ hist = {}
    /\ given = NoError
    /\ call = Idle
    /\ cls = NoClass
    /\ built = NoText
    /\ peer = NoPeer

NextRace ==
    \/ \E a \in BOOLEAN : SandboxEnter(a)
    \/ CreateSandbox_TerminateSource
    \/ CreateSandbox_TerminateSandbox
    \/ CreateSandbox_Drop
    \/ CreateSandbox_Create
    \/ \E a \in Accepts("sandbox") : SandboxEnter_Connect(a)
    \/ \E raises \in BOOLEAN : BodyEnds(raises)
    \/ \E a \in BOOLEAN : SandboxExit(a)
    \/ DropSandbox_Terminate
    \/ DropSandbox_Drop
    \/ Peer_Enter
    \/ Peer_TerminateSandbox
    \/ Peer_Drop
    \/ Peer_Create
    \/ Peer_Connect
    \/ Peer_Exit

SpecRace == InitRace /\ [][NextRace]_vars

(***************************************************************************)
(* Specification of the declarations: a model class, of lib/orm.py, of     *)
(* lib/orm_docstrings.py or a sample one, its column list and the          *)
(* statements built for it; no statement is sent to an engine.             *)
(***************************************************************************)
InitText ==
    /\ cls \in EntityClasses \cup SampleClasses
    /\ built = NoText
    /\ dbs = [n \in DbNames |-> NoDatabase]
    /\ sess = [c \in Clients |-> "none"]
    /\ conn = [c \in Clients |-> FALSE]
    /\ extSess = [n \in DbNames |-> 0]
    /\ pc = "Unacquired"
    /\ backup = NoFile
    /\ raised = FALSE
    /\ outcome = "none"
    /\ log = <<>>
    /\ snap = NoDatabase
    /\ made = FALSE
    /\ last = NoCall
    /\ rt = NoRoundTrip
    /\ hist = {}
    /\ given = NoError
    /\ call = Idle
    /\ peer = NoPeer

NextText ==
    \/ GetColumns
    \/ \E site \in Sites : Build(site)

SpecText == InitText /\ [][NextText]_vars

(***************************************************************************)
(* Properties.                                                             *)
(***************************************************************************)
SandboxExists == dbs[sandbox_db_params].exists
ExitEnded == outcome \in {"exit_ok", "exit_raised"}
ExitSteps == <<"disconnect", "connect_source", "terminate_sandbox", "drop", "close">>
ExitStepsDropRefused ==
    <<"disconnect", "connect_source", "terminate_sandbox", "drop_failed", "close">>

\* C1 as stated: whenever the body raised and __exit__ has ended, the sandbox
\* database does not exist.
C1_SandboxGoneAfterRaise == (raised /\ ExitEnded) => ~SandboxExists

\* C1 amended: once the body has ended (raising or not) __exit__ can run; when
\* the body raised and __exit__ returned, it ran disconnect and then the
\* statements of drop_sandbox in order, its conn is None and the sandbox does
\* not exist; when it raised instead, it did so after the disconnect, because
\* the connection to the source was refused or because DROP DATABASE was.
C1_ExitRunsAfterRaise ==
    /\ pc = "with_exit" => ENABLED (\E a \in BOOLEAN : SandboxExit(a))
    /\ (raised /\ outcome = "exit_ok") =>
          /\ ~SandboxExists
          /\ ~conn["sandbox"]
          /\ Steps(log) = ExitSteps
    /\ (raised /\ outcome = "exit_raised") =>
          Steps(log) \in {<<"disconnect">>, ExitStepsDropRefused}

C1_Witness == raised /\ outcome = "exit_ok" /\ pc = "Unacquired"

\* C2: from the moment the sandbox is created, through every call made
\* against it and after __exit__, the source database holds exactly the
\* tables and rows it held when the template copy was taken.
C2_SourceUntouched == snap.exists => dbs[source_db_params] = snap

C2_Witness ==
    /\ pc = "ds_drop"
    /\ snap = SeededDatabase
    /\ dbs[sandbox_db_params] # snap
    /\ dbs[source_db_params] = snap

\* C3: after delete_all_data(M) has returned, table M is empty and its
\* sequence's next value is 1, and the first row the call that follows
\* inserts into M has primary key 1.
C3_DeleteAllRestartsAtOne ==
    /\ [](last.op = "delete_all_data" /\ last.ok =>
            TableOf(last.m).rows = {} /\ TableOf(last.m).seq = 1)
    /\ [][(last.op = "delete_all_data" /\ last.ok
           /\ dbs'[DataBase_dbname].tables[last.m].rows # {})
          => 1 \in Ids(dbs'[DataBase_dbname].tables[last.m].rows)]_vars

C3_Witness ==
    /\ last.op = "delete_all_data"
    /\ last.ok
    /\ last.m = "patient"
    /\ last.had = MaxId
    /\ TableOf("patient").rows = {}
    /\ TableOf("patient").seq = 1

\* primary keys of the data lines of the backup file
FileKeys == {TextInt(backup.lines[i][1]) : i \in 2..Len(backup.lines)}
KeyAfter(keys) == IF keys = {} THEN 1 ELSE MaxOf(keys) + 1

\* C4: after restore_table(M, file) has returned, M holds the keys of the
\* file and its sequence's next value is K+1 for the largest key K of the
\* file (1 for a file without data rows), and the first row the call that
\* follows inserts into M has that key.
C4_RestoreRepairsSequence ==
    /\ [](last.op = "restore_table" /\ last.ok =>
            /\ Ids(TableOf(last.m).rows) = FileKeys
            /\ TableOf(last.m).seq = KeyAfter(FileKeys))
    /\ [][(last.op = "restore_table" /\ last.ok
           /\ Ids(dbs'[DataBase_dbname].tables[last.m].rows) \ FileKeys # {})
          => MinOf(Ids(dbs'[DataBase_dbname].tables[last.m].rows) \ FileKeys)
                = KeyAfter(FileKeys)]_vars

C4_Witness ==
    /\ last.op = "restore_table"
    /\ last.ok
    /\ FileKeys = {1}
    /\ last.nextval = MaxId + 1
    /\ TableOf(last.m).seq = 2

\* C5: when backup_table(M), delete_all_data(M) and restore_table(M) are
\* called one after the other on a table with at least one row, the restore
\* returns and M holds exactly the rows, keys included, it held at the backup.
C5_RoundTrip ==
    rt.phase = 3 =>
        /\ last.op = "restore_table" /\ last.ok
        /\ TableOf(rt.m).rows = rt.rows

C5_Witness == rt.phase = 3 /\ Cardinality(rt.rows) >= 2 /\ TableOf(rt.m).rows = rt.rows

\* C6 as stated: the second of two create_table(M) calls in sequence, made
\* on a connection that is open, never raises.
C6_CreateTwiceNeverRaises ==
    (last.op = "create_table" /\ last.prev # "none" /\ conn["db"] /\ sess["db"] # "none")
        => last.ok

\* C6 amended: when create_table(M) has returned and the session it ran on
\* is still open, a second create_table(M) that follows it returns as well
\* and leaves every table, row and sequence as it was.
C6_CreateIdempotent ==
    [][(last'.op = "create_table" /\ last'.prev = "returned" /\ sess["db"] # "none") =>
          (last'.ok /\ dbs' = dbs)]_vars

C6_Witness ==
    /\ last.op = "create_table"
    /\ last.prev = "returned"
    /\ last.ok
    /\ TableOf(last.m).rows # {}

\* C7 as stated: when __enter__ has raised, no sandbox database created by
\* that acquire remains.
C7_FailedEnterLeavesNoSandbox == outcome = "enter_raised" => ~(made /\ SandboxExists)

\* C8 as stated: DatabaseSandbox.execute_query called while the manager is
\* not Active raises, having run the query on no database.
C8_ExecuteOutsideActiveFails ==
    (last.op = "execute_query" /\ pc = "Unacquired") => ~last.ok

EnterSteps(dropped) ==
    <<"connect_source", "terminate_source", "terminate_sandbox", dropped, "create", "close",
      "connect_sandbox">>

\* C9: create_sandbox runs its statements in the order terminate source,
\* terminate sandbox, drop, create; the sandbox CREATE DATABASE makes is a
\* copy of the source, and when __enter__ returns the sandbox still equals
\* the source, whatever an earlier sandbox of that name held.
C9_FreshCloneOnEnter ==
    /\ [](outcome = "enter_ok" => Steps(log) \in {EnterSteps("drop"), EnterSteps("drop_skipped")})
    /\ [][(pc = "cs_create" /\ pc' = "enter_connect") =>
             dbs'[sandbox_db_params] = dbs[source_db_params]]_vars
    /\ [][(pc = "enter_connect" /\ pc' = "Active") =>
             dbs'[sandbox_db_params] = dbs'[source_db_params]]_vars

C9_Witness ==
    /\ pc = "Active"
    /\ outcome = "enter_ok"
    /\ Steps(log) = EnterSteps("drop")
    /\ "ended_sessions" \in {log[i] : i \in 1..Len(log)}
    /\ dbs[sandbox_db_params] = SeededDatabase

\* C10: __exit__ first leaves conn None, then ends every session connected
\* to the sandbox, however many, then drops it; the drop is refused only
\* when a session has connected after the termination statement.
C10_ExitTerminatesThenDrops ==
    /\ [](outcome = "exit_ok" => Steps(log) = ExitSteps)
    /\ [][(pc = "with_exit" /\ pc' # "with_exit") => ~conn'["sandbox"]]_vars
    /\ [][(pc = "ds_term" /\ pc' = "ds_drop") =>
             (\A c \in Clients : sess'[c] # sandbox_db_params) /\ extSess'[sandbox_db_params] = 0]_vars
    /\ [][(pc = "ds_drop" /\ pc' # "ds_drop" /\ Sessions(sandbox_db_params) = 0) =>
             (outcome' = "exit_ok" /\ ~dbs'[sandbox_db_params].exists)]_vars

C10_Witness ==
    /\ outcome = "exit_ok"
    /\ log = <<"disconnect", "connect_source", "terminate_sandbox", "ended_sessions", "drop", "close">>
    /\ conn["db"]
    /\ sess["db"] = "none"

\* C11: when the body raised E and __exit__ then raised D, the caller is
\* handed D with E attached as its context, so neither hides the other; a
\* body error alone leaves as E, an __exit__ error alone as D.
C11_BothErrorsSurface ==
    /\ (raised /\ outcome = "exit_raised") => given = [error |-> "D", context |-> "E"]
    /\ (raised /\ outcome = "exit_ok") => given = [error |-> "E", context |-> "none"]
    /\ (~raised /\ outcome = "exit_raised") => given = [error |-> "D", context |-> "none"]
    /\ (~raised /\ outcome = "exit_ok") => given = NoError

C11_Witness ==
    /\ raised
    /\ outcome = "exit_raised"
    /\ Steps(log) = ExitStepsDropRefused
    /\ given.error = "D"
    /\ given.context = "E"

\* C12: when a session is connected to the sandbox at the moment
\* drop_sandbox issues DROP DATABASE (it connected after the termination
\* statement), the statement fails, the error leaves __exit__, the control
\* connection has been closed and the sandbox still exists; and __exit__
\* never returns normally while the sandbox exists.
C12_DropRaceRaises ==
    /\ [][(pc = "ds_drop" /\ pc' # "ds_drop" /\ Sessions(sandbox_db_params) > 0) =>
             /\ outcome' = "exit_raised"
             /\ given'.error = "D"
             /\ log'[Len(log')] = "close"
             /\ dbs'[sandbox_db_params].exists]_vars
    /\ [](outcome = "exit_ok" => ~SandboxExists)

C12_Witness ==
    /\ outcome = "exit_raised"
    /\ log[Len(log)] = "close"
    /\ extSess[sandbox_db_params] > 0
    /\ SandboxExists
    /\ given.error = "D"

\* C13 as stated: save_objects never returns normally after a list that
\* holds an object that is no Patient, Doctor or Appointment.
C13_UnsupportedKindRaises ==
    (last.op = "save_objects" /\ last.ok) =>
        \A i \in 1..Len(last.objects) : last.objects[i].kind \in Models

\* C14 as stated: generate_appointments never returns a list, for any n,
\* while the patient table or the doctor table has no rows.
C14_EmptyReferenceRaises ==
    (last.op = "generate_appointments"
     /\ (TableOf("patient").rows = {} \/ TableOf("doctor").rows = {}))
        => ~last.ok

\* C15: every Appointment of a list generate_appointments has returned names
\* the key of a row the patient table holds and the key of a row the doctor
\* table holds.
C15_GeneratedKeysExist ==
    (last.op = "generate_appointments" /\ last.ok) =>
        \A i \in 1..Len(last.objects) :
            /\ last.objects[i].kind = "appointment"
            /\ last.objects[i].patient_id \in Ids(TableOf("patient").rows)
            /\ last.objects[i].doctor_id \in Ids(TableOf("doctor").rows)

C15_Witness ==
    /\ last.op = "generate_appointments"
    /\ last.ok
    /\ Len(last.objects) = MaxObjs
    /\ last.objects[1].patient_id = MaxId
    /\ Cardinality(TableOf("patient").rows) = MaxId

\* the patient rows a list of patients becomes when its first object is
\* given key k and each following object the next key
PatientRows(objects, k) ==
    {<<k + i - 1, objects[i].name, objects[i].age, objects[i].gender>> : i \in 1..Len(objects)}

\* C18: a save_objects call that returns, on a list of n generated
\* patients, adds to the patient table exactly n rows, one per object, the
\* i-th with key (sequence value before the call) + i - 1 and the object's
\* values; a table that was empty then holds exactly n rows.
C18_SaveAddsRowsInOrder ==
    [][(/\ last'.op = "save_objects"
        /\ last'.ok
        /\ \A i \in 1..Len(last'.objects) : last'.objects[i] \in GeneratedPatients)
       => /\ dbs'[DataBase_dbname].tables["patient"].rows =
                TableOf("patient").rows
                    \cup PatientRows(last'.objects, TableOf("patient").seq)
          /\ Cardinality(dbs'[DataBase_dbname].tables["patient"].rows) =
                Cardinality(TableOf("patient").rows) + Len(last'.objects)]_vars

C18_Witness ==
    /\ last.op = "save_objects"
    /\ last.ok
    /\ last.objects = <<Patient("Ivan", 30, "Male"), Patient("Anna", 30, "Female")>>
    /\ TableOf("patient").rows = {<<1, "Ivan", 30, "Male">>, <<2, "Anna", 30, "Female">>}

\* C16 as stated: create_table(Appointment) called while the patient table
\* or the doctor table does not exist raises.
C16_CreateWithoutReferencedRaises ==
    (/\ last.op = "create_table"
     /\ last.m = "appointment"
     /\ (~TableOf("patient").exists \/ ~TableOf("doctor").exists))
        => ~last.ok

\* C16 amended: create_table(Appointment) called while the appointment
\* table does not exist and the patient table or the doctor table does not
\* exist raises and leaves the database as it was; and no create_table call
\* changes a table other than the one it names.
C16_MissingReferenceRaises ==
    /\ [][(/\ last'.op = "create_table"
           /\ last'.m = "appointment"
           /\ ~TableOf("appointment").exists
           /\ (~TableOf("patient").exists \/ ~TableOf("doctor").exists))
          => (~last'.ok /\ dbs' = dbs)]_vars
    /\ [][last'.op = "create_table" =>
             \A t \in Models \ {last'.m} : dbs'[DataBase_dbname].tables[t] = TableOf(t)]_vars

C16_Witness ==
    /\ last.op = "create_table"
    /\ last.m = "appointment"
    /\ ~last.ok
    /\ conn["db"]
    /\ sess["db"] = DataBase_dbname
    /\ ~TableOf("appointment").exists
    /\ ~TableOf("patient").exists
    /\ TableOf("doctor").exists

\* C17: on an open session, create_table on Patient, Doctor and Appointment
\* in that order returns and leaves all three tables existing; drop_table(M)
\* returns and leaves M not existing; and drop_table(M) on a table that does
\* not exist returns and leaves every table as it was.
C17_CreateAndDrop ==
    /\ []((last.op = "setup_database" /\ sess["db"] # "none") =>
             (last.ok /\ \A m \in Models : TableOf(m).exists))
    /\ []((last.op = "drop_table" /\ sess["db"] # "none") =>
             (last.ok /\ ~TableOf(last.m).exists))
    /\ [][(last'.op = "drop_table" /\ sess'["db"] # "none" /\ ~TableOf(last'.m).exists)
          => (last'.ok /\ dbs' = dbs)]_vars

C17_Witness ==
    /\ last.op = "drop_table"
    /\ last.m = "patient"
    /\ last.ok
    /\ last.prev = "returned"
    /\ ~TableOf("patient").exists
    /\ TableOf("doctor").exists
    /\ TableOf("appointment").rows # {}

\* the row an object becomes when it is inserted with key k
RowOf(obj, k) ==
    IF obj.kind = "patient" THEN <<k, obj.name, obj.age, obj.gender>>
    ELSE <<k, obj.name, obj.specialty>>

\* C19: replace_all_data(M, objects) is two steps.  After the first, and
\* until the second has run, table M is empty for every session; when the
\* call has returned, M holds exactly one row per object, the i-th with
\* key i.
C19_ReplaceInTwoSteps ==
    /\ call.op = "replace_all_data" =>
          (TableOf(call.m).rows = {} /\ TableOf(call.m).seq = 1)
    /\ (last.op = "replace_all_data" /\ last.ok) =>
          TableOf(last.m).rows = {RowOf(last.objects[i], i) : i \in 1..Len(last.objects)}

C19_Witness ==
    /\ call.op = "replace_all_data"
    /\ call.had > 0
    /\ Len(call.objects) = MaxObjs
    /\ TableOf(call.m).rows = {}
    /\ extSess[sandbox_db_params] > 0

Truncating == {"delete_all_data", "restore_table"}

\* C20: after delete_all_data or restore_table on Patient or Doctor has
\* returned, the appointment table that references it is empty; and
\* delete_all_data or restore_table on Appointment leaves the patient table
\* and the doctor table as they were.
C20_TruncateCascades ==
    /\ []((last.op \in Truncating /\ last.ok /\ last.m \in TableOf("appointment").fks) =>
             TableOf("appointment").rows = {})
    /\ [][(last'.op \in Truncating /\ last'.m = "appointment") =>
             /\ dbs'[DataBase_dbname].tables["patient"] = TableOf("patient")
             /\ dbs'[DataBase_dbname].tables["doctor"] = TableOf("doctor")]_vars

C20_Witness ==
    /\ last.op = "delete_all_data"
    /\ last.m = "appointment"
    /\ last.ok
    /\ last.had > 0
    /\ TableOf("appointment").rows = {}
    /\ TableOf("patient").rows # {}
    /\ TableOf("doctor").rows # {}

\* data lines of the backup file that do not have as many fields as table m
\* has columns
MiscountedLines(m) ==
    {i \in 2..Len(backup.lines) : Len(backup.lines[i]) # Len(get_columns(m))}

\* C21: restore_table(M), run on an open session against a file holding a
\* data line with the wrong number of fields, raises, and table M is then
\* empty: no line of the file was loaded and the truncate stays.
C21_MiscountedRowFailsRestore ==
    (/\ last.op = "restore_table"
     /\ sess["db"] # "none"
     /\ backup.exists
     /\ MiscountedLines(last.m) # {})
        => (~last.ok /\ TableOf(last.m).rows = {})

C21_Witness ==
    /\ last.op = "restore_table"
    /\ last.m = "doctor"
    /\ last.had > 0
    /\ ~last.ok
    /\ sess["db"] # "none"
    /\ Len(backup.lines) = 1 + MaxId
    /\ MiscountedLines("doctor") = 2..Len(backup.lines)
    /\ TableOf("doctor").rows = {}

(***************************************************************************)
(* Declarations and statements.                                            *)
(***************************************************************************)
\* a line without its indentation
Unindented(line) ==
    LET k == {i \in 1..Len(line) : line[i] # " "}
    IN IF k = {} THEN <<>> ELSE SubSeq(line, MinOf(k), Len(line))

\* a field line reads `name: TYPE ...`: a name, a colon, a space and a type
IsFieldLine(line) ==
    LET s == Unindented(line)
    IN /\ Len(s) >= 4
       /\ s[1] \notin NonWord
       /\ s[2] = ":"
       /\ s[3] = " "
       /\ s[4] \notin NonWord

FieldNames(doc) ==
    LET f == SelectSeq(doc, IsFieldLine)
    IN [k \in 1..Len(f) |-> Unindented(f[k])[1]]

ColumnNames(columns) == [k \in 1..Len(columns) |-> columns[k][1]]

\* C22: the get_columns of lib/orm_docstrings.py returns one column for
\* every field line `name: TYPE ...` of the docstring, in the order of the
\* lines, and nothing for any other line; for Appointment these are
\* appointment_id, patient_id, doctor_id, appointment_date.
C22_OneColumnPerFieldLine ==
    (built.site = "get_columns" /\ cls.module = "orm_docstrings") =>
        /\ ColumnNames(built.columns) = FieldNames(cls.doc)
        /\ cls.name = "appointment" =>
               ColumnNames(built.columns) =
                   <<"appointment_id", "patient_id", "doctor_id", "appointment_date">>

\* s occurs in t, its elements in the same relative order
InOrderWithin(s, t) ==
    /\ \A i \in 1..Len(s) : \E k \in 1..Len(t) : t[k] = s[i]
    /\ \A i, j \in 1..Len(s) : \A k, l \in 1..Len(t) :
           (i < j /\ t[k] = s[i] /\ t[l] = s[j]) => k < l

\* C23: for Patient, Doctor and Appointment, in lib/orm.py and in
\* lib/orm_docstrings.py, every column the INSERT statement names is a
\* column of the CREATE TABLE statement built from get_columns, and the two
\* lists agree on the relative order.
C23_InsertColumnsAreCreated ==
    (built.site = "create_table" /\ cls \in EntityClasses) =>
        InOrderWithin(InsertColumns(cls.name), ColumnNames(built.columns))

\* C26: every statement built around a table or database name embeds the
\* name as a quoted identifier.
C26_NamesAreQuoted ==
    built.site \in Sites =>
        \A i \in 1..Len(built.text) :
            built.text[i] \in DbNames \cup Models \cup {"sample"} =>
                /\ 1 < i
                /\ i < Len(built.text)
                /\ built.text[i - 1] = "\""
                /\ built.text[i + 1] = "\""

(***************************************************************************)
(* Two managers of one sandbox name.                                       *)
(***************************************************************************)
\* C24: two managers of the same sandbox name race on terminate, drop and
\* create.  Between the first manager's return from __enter__ and its
\* __exit__ the second one's DROP DATABASE removes the sandbox, leaving the
\* first with a dead handle, and its CREATE DATABASE puts another database
\* in its place; and the CREATE DATABASE of a manager that has just dropped
\* the sandbox fails when the other one has created it in between.
C24_ManagersRace ==
    [][/\ (/\ peer.pc \in {"cs_drop", "ds_drop"}
           /\ peer' # peer
           /\ pc = "Active"
           /\ dbs[sandbox_db_params].exists
           /\ Sessions(sandbox_db_params) = 0)
              => (/\ pc' = "Active"
                  /\ ~dbs'[sandbox_db_params].exists
                  /\ conn'["sandbox"] = conn["sandbox"]
                  /\ sess'["sandbox"] = "none")
       /\ (/\ peer.pc = "cs_create"
           /\ peer'.pc = "enter_connect"
           /\ pc = "Active")
              => (/\ pc' = "Active"
                  /\ dbs'[sandbox_db_params].exists
                  /\ dbs'[sandbox_db_params] # snap)
       /\ (/\ pc = "cs_create"
           /\ pc' # pc
           /\ dbs[sandbox_db_params].exists)
              => (/\ pc' = "Unacquired"
                  /\ outcome' = "enter_raised"
                  /\ dbs' = dbs)
       /\ (/\ peer.pc = "cs_create"
           /\ peer' # peer
           /\ dbs[sandbox_db_params].exists)
              => (peer'.pc = "Unacquired" /\ dbs' = dbs)]_vars

\* the second manager has dropped the sandbox under the Active first one,
\* and later the first one's CREATE DATABASE has failed right after the
\* second one's had created the database
C24_Witness ==
    /\ peer.raced
    /\ peer.pc = "enter_connect"
    /\ pc = "Unacquired"
    /\ outcome = "enter_raised"
    /\ Len(log) >= 2
    /\ log[Len(log) - 1] = "create_failed"
    /\ dbs[sandbox_db_params] = EmptyDatabase

(***************************************************************************)
(* The manager's cycle.                                                    *)
(***************************************************************************)
Phase(p) ==
    CASE p = "Unacquired" -> "Unacquired"
      [] p \in {"cs_term_source", "cs_term_sandbox", "cs_drop", "cs_create", "enter_connect"} -> "Creating"
      [] p = "Active" -> "Active"
      [] p \in {"with_exit", "ds_term", "ds_drop"} -> "Dropping"

\* C25 as stated: every __exit__ ends with conn None and the sandbox
\* database gone.
C25_ExitLeavesNothing ==
    [][(Phase(pc) = "Dropping" /\ pc' = "Unacquired") =>
          (~conn'["sandbox"] /\ ~dbs'[sandbox_db_params].exists)]_vars

\* C25 amended: the manager moves Unacquired, Creating, Active, Dropping,
\* Unacquired, a failing __enter__ going from Creating back to Unacquired;
\* every __exit__ ends with conn None, and with the sandbox gone when it
\* returns normally; from Unacquired __enter__ can always be run again, and
\* whenever it returns the sandbox equals the source.
C25_Cycle ==
    /\ [][pc' # pc =>
             <<Phase(pc), Phase(pc')>> \in
                 {<<"Unacquired", "Creating">>, <<"Creating", "Creating">>, <<"Creating", "Active">>,
                  <<"Creating", "Unacquired">>, <<"Active", "Dropping">>, <<"Dropping", "Dropping">>,
                  <<"Dropping", "Unacquired">>}]_vars
    /\ [][(Phase(pc) = "Dropping" /\ pc' = "Unacquired") =>
             /\ ~conn'["sandbox"]
             /\ outcome' \in {"exit_ok", "exit_raised"}
             /\ outcome' = "exit_ok" => ~dbs'[sandbox_db_params].exists]_vars
    /\ [](pc = "Unacquired" => ENABLED SandboxEnter(TRUE))
    /\ [][(Phase(pc) = "Creating" /\ pc' = "Active") =>
             dbs'[sandbox_db_params] = dbs'[source_db_params]]_vars

\* an __exit__ has returned after a body that did not raise: conn is None,
\* the sandbox is gone and __enter__ can be run again
C25_Witness ==
    /\ pc = "Unacquired"
    /\ outcome = "exit_ok"
    /\ ~raised
    /\ Steps(log) = ExitSteps
    /\ ~conn["sandbox"]
    /\ ~SandboxExists
    /\ ENABLED SandboxEnter(TRUE)

\* C27: before it drops the sandbox, drop_sandbox ends the sessions of the
\* source database and of the sandbox database: when its termination step
\* is over, no session is connected to either.
C27_DropTerminatesBoth ==
    [][(pc = "ds_term" /\ pc' = "ds_drop") =>
          \A n \in DbNames : (\A c \in Clients : sess'[c] # n) /\ extSess'[n] = 0]_vars

\* C28: whatever create_table, drop_table, save_objects, delete_all_data and
\* replace_all_data calls have been made, the patient_id and the doctor_id
\* of every appointment row are keys of rows of the patient and the doctor
\* table.
C28_AppointmentsReferToRows ==
    \A r \in TableOf("appointment").rows :
        /\ r[FkColumn("patient")] \in Ids(TableOf("patient").rows)
        /\ r[FkColumn("doctor")] \in Ids(TableOf("doctor").rows)

(***************************************************************************)
(* The DataBase connection.                                                *)
(***************************************************************************)
\* a recorded call that has gone through execute_query: any but
\* disconnect and the save_objects of an empty list
Queried(l) ==
    /\ l.op \in {"create_table", "save_objects"}
    /\ l.op = "save_objects" => l.objects # <<>>

\* C29: a DataBase opens a session only when its conn is None.  Once the
\* server has ended its session the handle stays in conn: every call that
\* goes through execute_query then fails, opens no session and changes no
\* database, until disconnect() has set conn to None; the next call
\* connects again, and succeeds when the engine accepts the connection.
C29_DeadHandleStays ==
    /\ [][(sess'["db"] # "none" /\ sess'["db"] # sess["db"]) => ~conn["db"]]_vars
    /\ [][(conn["db"] /\ sess["db"] = "none" /\ Queried(last')) =>
             /\ ~last'.ok
             /\ conn'["db"]
             /\ sess'["db"] = "none"
             /\ dbs' = dbs]_vars
    /\ [][(last'.op = "disconnect" /\ last' # last) =>
             (last'.ok /\ ~conn'["db"] /\ sess'["db"] = "none")]_vars
    /\ [][(~conn["db"] /\ Queried(last') /\ last'.ok) =>
             (conn'["db"] /\ sess'["db"] = DataBase_dbname)]_vars
    /\ []((~conn["db"] /\ SandboxExists) =>
             LET r == create_table(World, TRUE, "patient")
             IN r.ok /\ r.w.conn["db"] /\ r.w.sess["db"] = DataBase_dbname)

\* a call on the patient table has failed on the dead handle, although the
\* sandbox exists again and the manager is Active in it
C29_Witness ==
    /\ last.op = "save_objects"
    /\ last.objects # <<>>
    /\ ~last.ok
    /\ conn["db"]
    /\ sess["db"] = "none"
    /\ pc = "Active"
    /\ SandboxExists
    /\ TableOf("patient").exists

\* the calls other than backup_table succeed as the first call of a
\* DataBase whose conn is None, when the engine accepts the connection and
\* the tables exist; restore_table is given the file a connected DataBase
\* has written
FirstCallsSucceed ==
    \A m \in Models :
        /\ create_table(World, TRUE, m).ok
        /\ drop_table(World, TRUE, m).ok
        /\ delete_all_data(World, TRUE, m).ok
        /\ replace_all_data(World, TRUE, m, <<>>).ok
        /\ \A o \in GeneratedPatients \cup GeneratedDoctors :
               TableOf(o.kind).seq <= MaxId => save_objects(World, TRUE, <<o>>).ok
        /\ LET written == backup_table(DataBase_connect(World, TRUE).w, m)
           IN /\ written.ok
              /\ restore_table(DataBase_disconnect(written.w).w, TRUE, m).ok

\* C30: create_table, drop_table, delete_all_data, replace_all_data,
\* save_objects, backup_table and restore_table each open the connection on
\* demand: called first on a DataBase whose conn is None, with the tables in
\* place and the engine accepting connections, each of them succeeds.
C30_FirstCallConnects ==
    (~conn["db"] /\ SandboxExists /\ \A m \in Models : TableOf(m).exists) =>
        /\ FirstCallsSucceed
        /\ \A m \in Models : backup_table(World, m).ok

====
